---- MODULE Spec2Model ----
(***************************************************************************)
(* Model of releases/__init__.py: the changelog partitioner                *)
(* (construct_releases) and the output assembler (construct_nodes), driven *)
(* as generate_changelog drives them.                                      *)
(*                                                                         *)
(* Representation.  A Python string that the code splits on '.' (a release *)
(* number, a line name, a minimum line) is kept as the sequence of its     *)
(* dot-separated components, each a string: "1.10.0" is <<"1","10","0">>,  *)
(* 'unreleased_bugfix' is <<"unreleased_bugfix">>.  Python's None is the   *)
(* value None below.  A docutils node is a record with a field `node`      *)
(* naming its class.  Object identity of an issue node (list.remove and    *)
(* `in` compare docutils nodes by identity) is the field `id`.             *)
(***************************************************************************)
EXTENDS Naturals, Sequences, FiniteSets, TLC

\* ------------------------------------------------------------------ bounds
\* Longest authored changelog (number of bullet items) of the specifications.
MaxLen == 3
\* Longest authored changelog of SpecNodes.
MaxNodesLen == 3
\* Longest authored changelog of SpecLines.
MaxLinesLen == 4

\* ------------------------------------------------------------ plain values
None == "None"
\* None where the value, when present, is a dotted string
NoLine == <<>>

\* Issue type list (keys) + color values
issue_types == [bug |-> "A04040", feature |-> "40A056", support |-> "4070A0"]

unreleased_bugfix == <<"unreleased_bugfix">>
unreleased_feature == <<"unreleased_feature">>

\* docutils node constructors
raw(text) == [node |-> "raw", text |-> text]
inline(text) == [node |-> "inline", text |-> text]
Text(text) == [node |-> "Text", text |-> text]
NoLink == [node |-> "None", text |-> <<>>]
reference(issue_no) == [node |-> "reference", text |-> <<"#", issue_no>>]

\* ------------------------------------------------------------ pure helpers
Range(s) == {s[k] : k \in 1..Len(s)}

Reverse(s) == [k \in 1..Len(s) |-> s[Len(s) + 1 - k]]

\* Python's list.remove(x) on a list that holds x: drops the first occurrence
RemoveFirst(s, x) ==
    LET k == CHOOSE j \in 1..Len(s) : s[j] = x /\ \A m \in 1..(j - 1) : s[m] # x
    IN  SubSeq(s, 1, k - 1) \o SubSeq(s, k + 1, Len(s))

\* int() of a component of digits, as LooseVersion.parse applies it
int ==
    ("0" :> 0) @@ ("1" :> 1) @@ ("2" :> 2) @@ ("3" :> 3) @@ ("4" :> 4) @@
    ("5" :> 5) @@ ("9" :> 9) @@ ("10" :> 10) @@ ("11" :> 11)

\* Rank of a component among the components of the model when they are
\* ordered as strings
lexical ==
    ("0" :> 0) @@ ("1" :> 1) @@ ("10" :> 2) @@ ("11" :> 3) @@ ("2" :> 4) @@
    ("3" :> 5) @@ ("4" :> 6) @@ ("5" :> 7) @@ ("9" :> 8)

LooseVersion_lexical(x) == [k \in 1..Len(x) |-> lexical[x[k]]]

\* LooseVersion(x).version for a dotted numeric string: the list of its
\* components as integers
LooseVersion(x) == [k \in 1..Len(x) |-> int[x[k]]]

\* Python's list >= list on lists of integers: decided by the first position
\* where they differ, else by length
ListGE_strict(a, b) ==
    LET n == IF Len(a) < Len(b) THEN Len(a) ELSE Len(b)
        diff == {k \in 1..n : a[k] # b[k]}
    IN  IF diff = {} THEN Len(a) > Len(b)
        ELSE LET k == CHOOSE j \in diff : \A m \in diff : j <= m
             IN  a[k] > b[k]

ListGE(a, b) ==
    LET n == IF Len(a) < Len(b) THEN Len(a) ELSE Len(b)
        diff == {k \in 1..n : a[k] # b[k]}
    IN  IF diff = {} THEN Len(a) >= Len(b)
        ELSE LET k == CHOOSE j \in diff : \A m \in diff : j <= m
             IN  a[k] > b[k]

\* 1.2.7 -> 1.2
get_line(obj) == SubSeq(obj.number, 1, Len(obj.number) - 1)

\* ------------------------------------------------------- roles (the parser)
issue_nodelist(name, link) ==
    LET signifier == <<raw(<<issue_types[name], name>>)>>
        hyperlink == IF link # NoLink THEN <<inline(" "), link>> ELSE <<>>
        trail == IF link # NoLink THEN <<>> ELSE <<inline(" ")>>
    IN  signifier \o hyperlink \o <<inline(":")>> \o trail

\* release_line_re on the metadata strings of the model: '(1.3+)' -> '1.3'
release_line_re == ("(1.3+)" :> <<"1", "3">>) @@ ("(1.0+)" :> <<"1", "0">>)

\* :bug|feature|support:`issue_no ported`
issues_role(name, issue_no, ported) ==
    LET linked == issue_no \notin {"-", "0"}
        link == IF linked THEN reference(issue_no) ELSE NoLink
        number == IF linked THEN issue_no ELSE None
        line == IF ported \notin {"backported", "major", ""}
                THEN release_line_re[ported] ELSE NoLine
    IN  [node |-> "issue",
         number |-> number,
         type_ |-> name,
         nodelist |-> issue_nodelist(name, link),
         backported |-> (ported = "backported"),
         major |-> (ported = "major"),
         line |-> line]

release_nodes(text, slug, date) ==
    [node |-> "section", ids |-> text,
     children |-> <<raw(<<slug, text, <<date>>>>)>>]

\* :release:`number <date>`
release_role(number, date) ==
    [node |-> "release", number |-> number, date |-> date,
     nodelist |-> <<release_nodes(number, number, date)>>]

\* --------------------------------------------------------- authored inputs
\* A bullet item of the changelog is [focus, rest]: obj[0][0] and obj[0][1:].
\* The explicit list of a release item is rest[0], a Text whose comma
\* separated, stripped pieces are the elements of its text.
IssueItem(name, issue_no, ported, rest) ==
    [focus |-> issues_role(name, issue_no, ported), rest |-> rest]

LineItem(text) == [focus |-> Text(<<text>>), rest |-> <<>>]

ReleaseItem(number, rest) ==
    [focus |-> release_role(number, "2020-01-01"), rest |-> rest]

IssueKinds ==
    {<<"bug", "">>, <<"bug", "major">>, <<"bug", "(1.3+)">>,
     <<"bug", "backported">>, <<"feature", "">>, <<"feature", "backported">>,
     <<"feature", "major">>, <<"support", "">>, <<"support", "backported">>}

\* Kinds that also occur under a second number / without a number
BasicKinds == {<<"bug", "">>, <<"bug", "major">>, <<"feature", "">>}

UnnumberedKinds == {<<"bug", "">>, <<"feature", "backported">>}

\* Numbers of the releases cut without and with an explicit list
ReleaseNumbers ==
    {<<"1", "2", "0">>, <<"1", "3", "0">>, <<"1", "10", "0">>, <<"1", "1">>}

ExplicitReleases ==
    {<<<<"1", "2", "1">>, <<"6">>>>, <<<<"1", "1">>, <<"6">>>>,
     <<<<"1", "1">>, <<"6", "5">>>>, <<<<"1", "2", "1">>, <<"7", "6", "8">>>>}

Described(k, n) == IssueItem(k[1], n, k[2], <<Text(<<"fixed it">>)>>)

Items ==
    {Described(k, "6") : k \in IssueKinds}
    \cup {Described(k, "5") : k \in BasicKinds}
    \cup {Described(k, "-") : k \in UnnumberedKinds}
    \cup {Described(<<"bug", "">>, "0")}
    \cup {LineItem("fixed something")}
    \cup {ReleaseItem(v, <<>>) : v \in ReleaseNumbers}
    \cup {ReleaseItem(r[1], <<Text(r[2])>>) : r \in ExplicitReleases}

\* The changelogs of at most n items over the alphabet A
Changelogs(A, n) == [m \in 0..n |-> [1..m -> A]]

\* Every focus node is its own Python object: its identity is its place in
\* the authored list
Parsed(s) ==
    [k \in 1..Len(s) |->
        [focus |-> ([id |-> k] @@ s[k].focus), rest |-> s[k].rest]]

\* ---------------------------------------------------------------- state
VARIABLES
    entries,    \* changelog.children, as authored (newest first)
    pos,        \* items of reversed(entries) consumed so far
    releases,   \* construct_releases: releases
    lines,      \* construct_releases: lines
    issues,     \* construct_releases: issues
    pc,         \* "construct_releases" | "construct_nodes" | "done" | "raised"
    error,      \* the exception that ended the run, NoError otherwise
    result      \* construct_nodes: result, spliced into the document

vars == <<entries, pos, releases, lines, issues, pc, error, result>>

NoError == [type |-> "", msg |-> "", args |-> <<>>]

DuplicateIssue(number) ==
    [type |-> "ValueError",
     msg |-> "You seem to have defined issue #%s twice! Please double check.",
     args |-> <<number>>]

MissingIssues(missing) ==
    [type |-> "ValueError",
     msg |-> "Couldn't find issue(s) #%s in the changelog!",
     args |-> missing]

NotInList == [type |-> "ValueError", msg |-> "list.remove(x): x not in list",
              args |-> <<>>]

KeyError(key) == [type |-> "KeyError", msg |-> "", args |-> key]

InitState(A, n) ==
    /\ \E m \in 0..n : \E s \in Changelogs(A, n)[m] : entries = Parsed(s)
    /\ pos = 0
    /\ releases = <<>>
    /\ lines = (unreleased_bugfix :> <<>>) @@ (unreleased_feature :> <<>>)
    /\ issues = <<>>
    /\ pc = "construct_releases"
    /\ error = NoError
    /\ result = <<>>

Init == InitState(Items, MaxLen)

\* reversed(entries)
reversed_forward(s) == s

reversed(s) == Reverse(s)

\* The item the loop of construct_releases handles next
Current == reversed(entries)[pos + 1]

Looping == pc = "construct_releases" /\ pos < Len(entries)

\* ---------------------------------------------------- construct_releases
\* x in list / list.remove(x) on a bucket of lines
InList(x, list) == x \in Range(list)

\* lists[name].remove(obj): ValueError when obj is not in the list
list_remove(ls, name, obj) ==
    IF InList(obj, ls[name])
    THEN [lines |-> [ls EXCEPT ![name] = RemoveFirst(ls[name], obj)],
          error |-> NoError]
    ELSE [lines |-> ls, error |-> NotInList]

\* if obj in ls[name]: ls[name].remove(obj)
remove_if_present_clear(ls, name, obj) ==
    IF InList(obj, ls[name]) THEN [ls EXCEPT ![name] = <<>>] ELSE ls

remove_if_present(ls, name, obj) ==
    IF InList(obj, ls[name])
    THEN [ls EXCEPT ![name] = RemoveFirst(ls[name], obj)]
    ELSE ls

\* Body of `for obj in entries` of an explicit release, for one obj
remove_released_setdefault(ls, line, obj) ==
    LET known == ls @@ (line :> <<>>)
    IN  IF obj.type_ = "bug" /\ ~obj.major
        THEN [lines |-> remove_if_present(
                            remove_if_present(known, unreleased_bugfix, obj),
                            line, obj),
              error |-> NoError]
        ELSE LET r == list_remove(known, unreleased_feature, obj)
             IN  IF r.error # NoError THEN r
                 ELSE [lines |-> remove_if_present(r.lines, line, obj),
                       error |-> NoError]

remove_released(ls, line, obj) ==
    IF obj.type_ = "bug"
    THEN IF obj.major
         THEN list_remove(ls, unreleased_feature, obj)
         ELSE LET ls1 == remove_if_present(ls, unreleased_bugfix, obj)
              IN  IF line \notin DOMAIN ls1
                  THEN [lines |-> ls1, error |-> KeyError(line)]
                  ELSE [lines |-> remove_if_present(ls1, line, obj),
                        error |-> NoError]
    ELSE LET r == list_remove(ls, unreleased_feature, obj)
         IN  IF r.error # NoError THEN r
             ELSE IF line \in DOMAIN r.lines
                  THEN [lines |-> remove_if_present(r.lines, line, obj),
                        error |-> NoError]
                  ELSE r

\* `for obj in entries` of an explicit release: stops at the first exception
RECURSIVE remove_all_released(_, _, _)
remove_all_released(ls, line, objs) ==
    IF objs = <<>> THEN [lines |-> ls, error |-> NoError]
    ELSE LET r == remove_released(ls, line, Head(objs))
         IN  IF r.error # NoError THEN r
             ELSE remove_all_released(r.lines, line, Tail(objs))

\* explicit = [x.strip() for x in rest[0].split(',')]
explicit_of(rest) == rest[1].text

\* missing = [i for i in explicit if i not in issues]
missing_first(explicit, iss) ==
    LET all == SelectSeq(explicit, LAMBDA i : i \notin DOMAIN iss)
    IN  IF all = <<>> THEN all ELSE <<Head(all)>>

missing_of(explicit, iss) == SelectSeq(explicit, LAMBDA i : i \notin DOMAIN iss)

\* entries = [issues[i] for i in explicit]
explicit_entries(explicit, iss) == [k \in 1..Len(explicit) |-> iss[explicit[k]]]

ExplicitRelease ==
    /\ Looping
    /\ Current.focus.node = "release"
    /\ Current.rest # <<>>
    /\ LET focus == Current.focus
           line == get_line(focus)
           explicit == explicit_of(Current.rest)
           missing == missing_of(explicit, issues)
           released == explicit_entries(explicit, issues)
           removed == remove_all_released(lines, line, released)
       IN  IF missing # <<>>
           THEN /\ error' = MissingIssues(missing)
                /\ pc' = "raised"
                /\ UNCHANGED <<releases, lines, pos>>
           ELSE /\ releases' = Append(releases,
                                      [obj |-> focus, entries |-> released])
                /\ lines' = removed.lines
                /\ error' = removed.error
                /\ IF removed.error # NoError
                   THEN pc' = "raised" /\ pos' = pos
                   ELSE pc' = pc /\ pos' = pos + 1
    /\ UNCHANGED <<entries, issues, result>>

\* entries of a feature release: what unreleased_feature holds
feature_entries_no_major(list) ==
    SelectSeq(list, LAMBDA x : x.type_ \in {"feature", "support"})

feature_entries(list) ==
    SelectSeq(list, LAMBDA x : x.type_ \in {"feature", "support"} \/ x.major)

ImplicitNewLine_inherit ==
    /\ Looping
    /\ Current.focus.node = "release"
    /\ Current.rest = <<>>
    /\ get_line(Current.focus) \notin DOMAIN lines
    /\ LET focus == Current.focus
           line == get_line(focus)
       IN  /\ releases' = Append(releases,
                 [obj |-> focus,
                  entries |-> feature_entries(lines[unreleased_feature])])
           /\ lines' = (line :> lines[unreleased_bugfix]) @@
                       [lines EXCEPT ![unreleased_feature] = <<>>]
    /\ pos' = pos + 1
    /\ UNCHANGED <<entries, issues, pc, error, result>>

ImplicitNewLine ==
    /\ Looping
    /\ Current.focus.node = "release"
    /\ Current.rest = <<>>
    /\ get_line(Current.focus) \notin DOMAIN lines
    /\ LET focus == Current.focus
           line == get_line(focus)
       IN  /\ releases' = Append(releases,
                 [obj |-> focus,
                  entries |-> feature_entries(lines[unreleased_feature])])
           /\ lines' = (line :> <<>>) @@
                       [lines EXCEPT ![unreleased_feature] = <<>>]
    /\ pos' = pos + 1
    /\ UNCHANGED <<entries, issues, pc, error, result>>

\* entries of a bugfix release: what the line's bucket holds
bugfix_entries(list) == SelectSeq(list, LAMBDA x : ~x.major)

\* for x in entries: if x in lines['unreleased_bugfix']: remove it
remove_each_clear(list, xs) == IF xs = <<>> THEN list ELSE <<>>

remove_each_none(list, xs) == list

RECURSIVE remove_each(_, _)
remove_each(list, xs) ==
    IF xs = <<>> THEN list
    ELSE remove_each(IF InList(Head(xs), list)
                     THEN RemoveFirst(list, Head(xs)) ELSE list, Tail(xs))

ImplicitExistingLine ==
    /\ Looping
    /\ Current.focus.node = "release"
    /\ Current.rest = <<>>
    /\ get_line(Current.focus) \in DOMAIN lines
    /\ LET focus == Current.focus
           line == get_line(focus)
           released == bugfix_entries(lines[line])
           emptied == [lines EXCEPT ![line] = <<>>]
       IN  /\ releases' = Append(releases,
                                 [obj |-> focus, entries |-> released])
           /\ lines' = [emptied EXCEPT ![unreleased_bugfix] =
                            remove_each(emptied[unreleased_bugfix], released)]
    /\ pos' = pos + 1
    /\ UNCHANGED <<entries, issues, pc, error, result>>

\* The issue object the else-branch focuses on: a line item with no real
\* issue object becomes a bug that is its own description, an issue node
\* gets the rest of its paragraph as description
focus_issue(item) ==
    IF item.focus.node # "issue"
    THEN [node |-> "issue", id |-> item.focus.id, number |-> None,
          type_ |-> "bug", nodelist |-> issue_nodelist("bug", NoLink),
          backported |-> FALSE, major |-> FALSE, line |-> NoLine,
          description |-> <<item.focus>>]
    ELSE [description |-> item.rest] @@ item.focus

\* focus.number and focus.number in issues
is_duplicate_unchecked(focus, iss) == FALSE

is_duplicate(focus, iss) == focus.number # None /\ focus.number \in DOMAIN iss

\* bug_lines of a regular bug: the buckets it is appended to
bug_lines_unreleased_only(ls, focus) == {unreleased_bugfix}

bug_lines(ls, focus) ==
    LET all == {x \in DOMAIN ls : x # unreleased_feature}
    IN  IF focus.line # NoLine
        THEN {x \in all : x # unreleased_bugfix
                          /\ ListGE(LooseVersion(x), LooseVersion(focus.line))}
             \cup {unreleased_bugfix}
        ELSE all

\* The buckets an issue is appended to
target_lines_no_backport(ls, focus) ==
    IF focus.type_ = "bug"
    THEN IF focus.major THEN {unreleased_feature} ELSE bug_lines(ls, focus)
    ELSE {unreleased_feature}

target_lines_major_as_bug(ls, focus) ==
    IF focus.type_ = "bug"
    THEN bug_lines(ls, focus)
    ELSE IF focus.backported THEN DOMAIN ls ELSE {unreleased_feature}

target_lines(ls, focus) ==
    IF focus.type_ = "bug"
    THEN IF focus.major THEN {unreleased_feature} ELSE bug_lines(ls, focus)
    ELSE IF focus.backported THEN DOMAIN ls ELSE {unreleased_feature}

\* for line in ...: lines[line].append(focus)
append_to(ls, names, focus) ==
    [x \in DOMAIN ls |-> IF x \in names THEN Append(ls[x], focus) ELSE ls[x]]

Issue ==
    /\ Looping
    /\ Current.focus.node # "release"
    /\ LET focus == focus_issue(Current)
       IN  IF is_duplicate(focus, issues)
           THEN /\ error' = DuplicateIssue(focus.number)
                /\ pc' = "raised"
                /\ UNCHANGED <<issues, lines, pos>>
           ELSE /\ issues' = (focus.number :> focus) @@ issues
                /\ lines' = append_to(lines, target_lines(lines, focus), focus)
                /\ pos' = pos + 1
                /\ UNCHANGED <<pc, error>>
    /\ UNCHANGED <<entries, releases, result>>

faux_title ==
    [bugfix |-> <<"Next bugfix release">>,
     feature |-> <<"Next feature release">>]

faux_line == [bugfix |-> unreleased_bugfix, feature |-> unreleased_feature]

\* The special 'release' entry of an unreleased bucket
faux_release(which, ls) ==
    [obj |-> [node |-> "release", number |-> faux_line[which], date |-> None,
              nodelist |-> <<release_nodes(faux_title[which], <<"master">>,
                                           None)>>],
     entries |-> ls[faux_line[which]]]

faux_releases(ls) == <<faux_release("bugfix", ls), faux_release("feature", ls)>>

\* The loop is over: append the faux releases and return
FauxReleases_swallow ==
    /\ pc \in {"construct_releases", "raised"}
    /\ pc = "construct_releases" => pos = Len(entries)
    /\ releases' = releases \o faux_releases(lines)
    /\ pc' = "construct_nodes"
    /\ UNCHANGED <<entries, pos, lines, issues, error, result>>

FauxReleases ==
    /\ pc = "construct_releases"
    /\ pos = Len(entries)
    /\ releases' = releases \o faux_releases(lines)
    /\ pc' = "construct_nodes"
    /\ UNCHANGED <<entries, pos, lines, issues, error, result>>

\* ------------------------------------------------------- construct_nodes
\* desc[i:i+1] = node['nodelist'] for every issue node of the copy desc[:],
\* i being the node's index in the copy
RECURSIVE expand(_, _, _)
expand(desc, copy, i) ==
    IF i > Len(copy) THEN desc
    ELSE IF copy[i].node = "issue"
         THEN expand(SubSeq(desc, 1, i - 1) \o copy[i].nodelist
                        \o SubSeq(desc, i + 1, Len(desc)),
                     copy, i + 1)
         ELSE expand(desc, copy, i + 1)

\* x.deepcopy() of every node of a description: equal nodes, new objects
deepcopy(description) == description

\* The list item built for one entry of a release
entry_item(entry) ==
    LET desc == deepcopy(entry.description)
    IN  [node |-> "list_item",
         children |-> <<[node |-> "paragraph",
                         children |-> entry.nodelist
                                      \o expand(desc, desc, 1)]>>]

bullet_list(released) ==
    [node |-> "bullet_list",
     children |-> [k \in 1..Len(released) |-> entry_item(released[k])]]

\* obj['nodelist'][0].append(list_), where it is done
with_list_in_place(d) ==
    IF d.entries = <<>> THEN d
    ELSE [d EXCEPT
            !.obj.nodelist[1].children = Append(@, bullet_list(d.entries)),
            !.entries = [k \in 1..Len(d.entries) |->
                            [d.entries[k] EXCEPT
                                !.description = expand(@, @, 1)]]]

with_list(d) ==
    IF d.entries = <<>> THEN d
    ELSE [d EXCEPT !.obj.nodelist[1].children = Append(@, bullet_list(d.entries))]

\* result: the release headers of the releases that have entries
RECURSIVE headers_keep_empty(_)
headers_keep_empty(ds) ==
    IF ds = <<>> THEN <<>>
    ELSE Head(ds).obj.nodelist \o headers_keep_empty(Tail(ds))

RECURSIVE headers(_)
headers(ds) ==
    IF ds = <<>> THEN <<>>
    ELSE IF Head(ds).entries = <<>> THEN headers(Tail(ds))
         ELSE Head(ds).obj.nodelist \o headers(Tail(ds))

ConstructNodes ==
    /\ pc = "construct_nodes"
    /\ LET done == [k \in 1..Len(releases) |-> with_list(releases[k])]
       IN  /\ releases' = done
           /\ result' = headers(reversed(done))
    /\ pc' = "done"
    /\ UNCHANGED <<entries, pos, lines, issues, error>>

\* ------------------------------------------------------------------ specs
Next ==
    \/ ExplicitRelease
    \/ ImplicitNewLine
    \/ ImplicitExistingLine
    \/ Issue
    \/ FauxReleases
    \/ ConstructNodes

Spec == Init /\ [][Next]_vars

\* Changelogs whose descriptions mention other issues inline
Descriptions ==
    LET see == Text(<<"see">>)
        bug5 == issues_role("bug", "5", "")
        plain == issues_role("feature", "-", "")
    IN  {<<>>, <<see>>, <<see, bug5, see>>, <<plain, bug5, see>>,
         <<see, bug5, see, plain>>}

NodesItems ==
    {IssueItem(name, "7", "", d) : name \in {"bug", "feature"},
                                   d \in Descriptions}
    \cup {LineItem("fixed something")}
    \cup {ReleaseItem(<<"1", "2", "0">>, <<>>),
          ReleaseItem(<<"1", "2", "1">>, <<Text(<<"7">>)>>)}

InitNodes == InitState(NodesItems, MaxNodesLen)

SpecNodes == InitNodes /\ [][Next]_vars

\* Changelogs of one family of release lines: releases 1.0 (line 1), 1.0.0
\* and 1.0.1 (line 1.0), and the issues released on them
LinesItems ==
    {Described(<<"bug", "">>, "1"), Described(<<"feature", "">>, "2"),
     Described(<<"bug", "(1.0+)">>, "3"), Described(<<"bug", "major">>, "4")}
    \cup {ReleaseItem(v, <<>>) :
             v \in {<<"1", "0">>, <<"1", "0", "0">>, <<"1", "0", "1">>}}
    \cup {ReleaseItem(<<"1", "0", "1">>, <<Text(<<"1">>)>>)}

InitLines == InitState(LinesItems, MaxLinesLen)

SpecLines == InitLines /\ [][Next]_vars

\* ------------------------------------------------- vocabulary of the claims
\* The authored items oldest first, and the ones the loop has handled
Chrono == Reverse(entries)

IsRelease(item) == item.focus.node = "release"

IsExplicit(item) == IsRelease(item) /\ item.rest # <<>>

Handled == {k \in 1..pos : TRUE}

\* Numbers carried by the issue items handled so far
RegisteredNumbers ==
    {Chrono[k].focus.number :
        k \in {j \in Handled : Chrono[j].focus.node = "issue"}} \ {None}

\* The handled issue that carries number n
IssueNumbered(n) ==
    focus_issue(Chrono[CHOOSE k \in Handled :
                          /\ Chrono[k].focus.node = "issue"
                          /\ Chrono[k].focus.number = n])

\* The loop is about to handle an item / that item
AtItem == pc = "construct_releases" /\ pos < Len(entries)

Item == Chrono[pos + 1]

\* The numbers an explicit release lists
Listed(item) == item.rest[1].text

AllRegistered(item) == \A k \in 1..Len(Listed(item)) :
                           Listed(item)[k] \in RegisteredNumbers

DuplicateMsg ==
    "You seem to have defined issue #%s twice! Please double check."

MissingMsg == "Couldn't find issue(s) #%s in the changelog!"

\* ------------------------------------------------------------------ C1
\* C1: cleanup after an explicit release never raises: no run is ended by an
\* explicit release whose listed numbers are all registered.
C1_CleanupNeverRaises ==
    ~(/\ pc = "raised"
      /\ IsExplicit(Item)
      /\ AllRegistered(Item))

\* ------------------------------------------------------------------ C2
\* C2: an explicit release whose listed numbers are all registered appends
\* one Release whose entries are exactly the listed issues, in the list's
\* order, and the run goes on to the next item.
C2_ExplicitReleaseEntries ==
    [][(AtItem /\ IsExplicit(Item) /\ AllRegistered(Item)) =>
          /\ pc' = "construct_releases"
          /\ pos' = pos + 1
          /\ releases' = Append(releases,
                [obj |-> Item.focus,
                 entries |-> [k \in 1..Len(Listed(Item)) |->
                                 IssueNumbered(Listed(Item)[k])]])]_vars

\* ------------------------------------------------------------------ C3
\* The item is an issue written without a number: a line item, or an issue
\* role whose argument is '-' or '0'
Unnumbered(item) ==
    \/ item.focus.node = "Text"
    \/ \E name \in DOMAIN issue_types, no \in {"-", "0"},
          ported \in {"", "backported", "major"} \cup DOMAIN release_line_re :
          item.focus = [id |-> item.focus.id] @@ issues_role(name, no, ported)

C3_Unique ==
    /\ \A a, b \in Handled :
          (/\ a # b
           /\ Chrono[a].focus.node = "issue"
           /\ Chrono[b].focus.node = "issue"
           /\ Chrono[a].focus.number # None)
          => Chrono[a].focus.number # Chrono[b].focus.number
    /\ \A a \in Handled :
          (Chrono[a].focus.node = "issue" /\ Chrono[a].focus.number # None)
          => /\ Chrono[a].focus.number \in DOMAIN issues
             /\ issues[Chrono[a].focus.number].id = Chrono[a].focus.id

\* The run was ended by an issue item: that item carries a registered
\* number, and the error names it
C3_Raised ==
    (pc = "raised" /\ ~IsRelease(Item)) =>
        /\ Item.focus.node = "issue"
        /\ Item.focus.number \in RegisteredNumbers
        /\ ~Unnumbered(Item)
        /\ error = [type |-> "ValueError", msg |-> DuplicateMsg,
                    args |-> <<Item.focus.number>>]

\* C3: a second issue record with a registered number ends the run with the
\* duplicate-issue error, so no two handled issues share a number and the
\* registry maps each number to the one issue that carries it; an issue
\* without a number never raises the error.
C3_NumbersRegisteredOnce == C3_Unique /\ C3_Raised

C3_Witness ==
    /\ pc = "raised"
    /\ error.msg = DuplicateMsg
    /\ \E k \in Handled : ~IsRelease(Chrono[k]) /\ Unnumbered(Chrono[k])

\* ------------------------------------------------------------------ C4
\* C4: an explicit release that lists a number not registered when it is
\* handled ends the run with the error that reports every missing number of
\* the list, with no Release appended and no bucket changed.
C4_MissingNumbersAbort ==
    [][(AtItem /\ IsExplicit(Item) /\ ~AllRegistered(Item)) =>
          /\ pc' = "raised"
          /\ error' = [type |-> "ValueError", msg |-> MissingMsg,
                       args |-> SelectSeq(Listed(Item),
                                   LAMBDA i : i \notin RegisteredNumbers)]
          /\ releases' = releases
          /\ lines' = lines]_vars

C4_Witness ==
    /\ pc = "raised"
    /\ error.msg = MissingMsg
    /\ Len(error.args) = 2
    /\ RegisteredNumbers # {}

\* ------------------------------------------------------------- C5, C6, C7
\* Classification of an issue item as authored; a line item is a plain bug
ItemType(item) == IF item.focus.node = "Text" THEN "bug" ELSE item.focus.type_

ItemMajor(item) == item.focus.node = "issue" /\ item.focus.major

ItemBackported(item) == item.focus.node = "issue" /\ item.focus.backported

ItemMinLine(item) ==
    IF item.focus.node = "issue" THEN item.focus.line ELSE NoLine

\* The item is an issue that registers without the duplicate-issue error
Registers(item) ==
    /\ ~IsRelease(item)
    /\ item.focus.node = "issue" => item.focus.number \notin RegisteredNumbers

LineBuckets(ls) == DOMAIN ls \ {unreleased_bugfix, unreleased_feature}

\* In this step the item's issue is appended to bucket x / x is left alone
AppendedTo(x) ==
    /\ Len(lines'[x]) = Len(lines[x]) + 1
    /\ SubSeq(lines'[x], 1, Len(lines[x])) = lines[x]
    /\ lines'[x][Len(lines'[x])].id = Item.focus.id

Untouched(x) == lines'[x] = lines[x]

Occurrences(list, id) == Cardinality({k \in 1..Len(list) : list[k].id = id})

\* C5: a non-major bug without minLine is appended to unreleased_bugfix and
\* to every line bucket that exists, and to no other bucket; no bucket is
\* created.
C5_PlainBugFanOut ==
    [][(/\ AtItem /\ Registers(Item)
        /\ ItemType(Item) = "bug" /\ ~ItemMajor(Item)
        /\ ItemMinLine(Item) = NoLine) =>
          /\ DOMAIN lines' = DOMAIN lines
          /\ AppendedTo(unreleased_bugfix)
          /\ \A x \in LineBuckets(lines) : AppendedTo(x)
          /\ Untouched(unreleased_feature)]_vars

C5_Witness ==
    /\ pc = "construct_releases" /\ pos > 0
    /\ LET item == Chrono[pos]
       IN  /\ ~IsRelease(item) /\ ItemType(item) = "bug"
           /\ ~ItemMajor(item) /\ ItemMinLine(item) = NoLine
           /\ Cardinality(LineBuckets(lines)) = 2
           /\ \A x \in DOMAIN lines \ {unreleased_feature} :
                 Occurrences(lines[x], item.focus.id) = 1

\* a >= b for dotted versions, numerically, component by component
RECURSIVE NumericGE(_, _)
NumericGE(a, b) ==
    IF b = <<>> THEN TRUE
    ELSE IF a = <<>> THEN FALSE
    ELSE IF int[Head(a)] # int[Head(b)] THEN int[Head(a)] > int[Head(b)]
    ELSE NumericGE(Tail(a), Tail(b))

\* C6: a non-major bug with minLine M is appended to unreleased_bugfix and to
\* exactly the existing line buckets whose line is >= M numerically (M = 1.3:
\* line 1.10 receives it, line 1.2 does not), and to no other bucket.
C6_MinLineFanOut ==
    [][(/\ AtItem /\ Registers(Item)
        /\ ItemType(Item) = "bug" /\ ~ItemMajor(Item)
        /\ ItemMinLine(Item) # NoLine) =>
          /\ DOMAIN lines' = DOMAIN lines
          /\ AppendedTo(unreleased_bugfix)
          /\ Untouched(unreleased_feature)
          /\ \A x \in LineBuckets(lines) :
                IF NumericGE(x, ItemMinLine(Item))
                THEN AppendedTo(x) ELSE Untouched(x)
          /\ ItemMinLine(Item) = <<"1", "3">> =>
                /\ <<"1", "10">> \in DOMAIN lines => AppendedTo(<<"1", "10">>)
                /\ <<"1", "2">> \in DOMAIN lines => Untouched(<<"1", "2">>)]_vars

C6_Witness ==
    /\ pc = "construct_releases" /\ pos > 0
    /\ LET item == Chrono[pos]
       IN  /\ ~IsRelease(item) /\ ItemType(item) = "bug"
           /\ ItemMinLine(item) = <<"1", "3">>
           /\ LineBuckets(lines) = {<<"1", "10">>, <<"1", "2">>}
           /\ Occurrences(lines[<<"1", "10">>], item.focus.id) = 1
           /\ Occurrences(lines[<<"1", "2">>], item.focus.id) = 0
           /\ Occurrences(lines[unreleased_bugfix], item.focus.id) = 1

\* C7: a backported feature or support issue is appended exactly once to
\* every bucket known at that moment: both sentinels and every line bucket.
C7_BackportFanOut ==
    [][(/\ AtItem /\ Registers(Item)
        /\ ItemType(Item) \in {"feature", "support"}
        /\ ItemBackported(Item)) =>
          /\ DOMAIN lines' = DOMAIN lines
          /\ \A x \in DOMAIN lines :
                /\ AppendedTo(x)
                /\ Occurrences(lines'[x], Item.focus.id) = 1]_vars

C7_Witness ==
    /\ pc = "construct_releases" /\ pos > 0
    /\ LET item == Chrono[pos]
       IN  /\ ~IsRelease(item) /\ ItemType(item) \in {"feature", "support"}
           /\ ItemBackported(item)
           /\ Cardinality(LineBuckets(lines)) = 1
           /\ \A x \in DOMAIN lines :
                 Occurrences(lines[x], item.focus.id) = 1

\* ------------------------------------------------------------------ C8
\* The release markers of the input, oldest first
Markers == SelectSeq(Chrono, IsRelease)

\* C8: the Release list an error-free run returns holds one Release per
\* release marker, oldest first (the reverse of the authored order), then
\* two dateless releases, for unreleased_bugfix and then unreleased_feature,
\* whose entries are what those buckets hold after the last item.
C8_ReturnedReleases ==
    pc = "construct_nodes" =>
        LET n == Len(Markers)
        IN  /\ Len(releases) = n + 2
            /\ \A k \in 1..n : releases[k].obj = Markers[k].focus
            /\ releases[n + 1].obj.number = unreleased_bugfix
            /\ releases[n + 1].obj.date = None
            /\ releases[n + 1].entries = lines[unreleased_bugfix]
            /\ releases[n + 2].obj.number = unreleased_feature
            /\ releases[n + 2].obj.date = None
            /\ releases[n + 2].entries = lines[unreleased_feature]

C8_Witness ==
    /\ pc = "construct_nodes"
    /\ Len(Markers) = 2
    /\ Markers[1].focus.number # Markers[2].focus.number
    /\ lines[unreleased_bugfix] # <<>>
    /\ lines[unreleased_feature] # <<>>

\* ------------------------------------------------------------------ C9
\* The Releases that have entries, last of the Release list first
Listing == SelectSeq(Reverse(releases), LAMBDA d : d.entries # <<>>)

\* C9: the assembler emits one header block per Release that has entries and
\* none for a Release without, in the reverse of the order of the Release
\* list: unreleased_feature first, then unreleased_bugfix, then the real
\* releases newest first.
C9_BlocksNewestFirst ==
    pc = "done" =>
        /\ Len(result) = Len(Listing)
        /\ \A j \in 1..Len(result) :
              /\ result[j].node = "section"
              /\ result[j] = Listing[j].obj.nodelist[1]
        /\ lines[unreleased_feature] # <<>> =>
              result[1].ids = <<"Next feature release">>
        /\ (lines[unreleased_feature] # <<>> /\ lines[unreleased_bugfix] # <<>>)
              => result[2].ids = <<"Next bugfix release">>

C9_Witness ==
    /\ pc = "done"
    /\ Len(result) = 2
    /\ Len(releases) = 3
    /\ releases[1].entries = <<>>
    /\ result[1].ids = <<"Next feature release">>
    /\ result[2].ids = <<"Next bugfix release">>

\* ------------------------------------------------------------------ C10
\* C10 as stated: assembly leaves every Release as it was, marker included.
C10_ReleasesUntouched ==
    [][pc = "construct_nodes" => releases' = releases]_vars

\* What a second construct_nodes(releases) would return after this step
SecondResult ==
    headers(Reverse([k \in 1..Len(releases') |-> with_list(releases'[k])]))

\* C10, amended: assembly leaves every Release's entry list and every entry
\* (description included) as they were, and the marker's number and date; a
\* Release without entries is not changed at all; the header section of the
\* marker of a Release with entries gets the rendered entry list appended,
\* so a second assembly of the same list would emit other blocks.
C10_EntriesUntouched ==
    [][pc = "construct_nodes" =>
          /\ Len(releases') = Len(releases)
          /\ \A k \in 1..Len(releases) :
                LET before == releases[k]
                    after == releases'[k]
                    old == before.obj.nodelist[1].children
                    new == after.obj.nodelist[1].children
                IN  /\ after.entries = before.entries
                    /\ after.obj.number = before.obj.number
                    /\ after.obj.date = before.obj.date
                    /\ before.entries = <<>> => after = before
                    /\ before.entries # <<>> =>
                          /\ Len(new) = Len(old) + 1
                          /\ SubSeq(new, 1, Len(old)) = old
                          /\ new[Len(new)].node = "bullet_list"
                          /\ Len(new[Len(new)].children) = Len(before.entries)
          /\ lines' = lines
          /\ issues' = issues
          /\ result' # <<>> => SecondResult # result']_vars

C10_Witness ==
    /\ pc = "done"
    /\ \E k \in 1..Len(releases) : releases[k].entries = <<>>
    /\ \E k \in 1..Len(releases) :
          \E e \in 1..Len(releases[k].entries) :
             \E m \in 1..Len(releases[k].entries[e].description) :
                releases[k].entries[e].description[m].node = "issue"

\* ------------------------------------------------------------------ C11
\* C11: an error ends the run on the spot with nothing put out: the step
\* that sets an error leaves the run raised with no block emitted, and no
\* step follows it (the Release list is never returned, no block is ever
\* emitted), Releases built before the error included.
C11_ErrorsAbort ==
    [][/\ pc # "raised"
       /\ error = NoError
       /\ (error' # NoError \/ pc' = "raised") =>
             /\ pc' = "raised"
             /\ error' # NoError
             /\ result' = <<>>]_vars

C11_Witness ==
    /\ pc = "raised"
    /\ error = NotInList
    /\ Len(releases) = 2
    /\ releases[1].entries # <<>>
    /\ result = <<>>

\* ------------------------------------------------------------- C12, C13
\* The line of a release marker: its version without the last component
LineOf(item) ==
    [k \in 1..(Len(item.focus.number) - 1) |-> item.focus.number[k]]

IsImplicit(item) == IsRelease(item) /\ item.rest = <<>>

\* A feature, a support issue or a major bug
FeatureLike(x) ==
    x.type_ \in {"feature", "support"} \/ (x.type_ = "bug" /\ x.major)

\* C12: an implicit release whose line is not yet a bucket appends a Release
\* whose entries are the features, support issues and major bugs of
\* unreleased_feature in that bucket's order; afterwards the line's bucket
\* exists and is empty, unreleased_feature is empty, and unreleased_bugfix
\* and every other line bucket are as before.
C12_NewLineRelease ==
    [][(AtItem /\ IsImplicit(Item) /\ LineOf(Item) \notin DOMAIN lines) =>
          /\ pc' = "construct_releases"
          /\ releases' = Append(releases,
                [obj |-> Item.focus,
                 entries |-> SelectSeq(lines[unreleased_feature],
                                       FeatureLike)])
          /\ DOMAIN lines' = DOMAIN lines \cup {LineOf(Item)}
          /\ lines'[LineOf(Item)] = <<>>
          /\ lines'[unreleased_feature] = <<>>
          /\ \A x \in DOMAIN lines \ {unreleased_feature} :
                Untouched(x)]_vars

C12_Witness ==
    /\ pc = "construct_releases" /\ pos > 0
    /\ IsImplicit(Chrono[pos])
    /\ Len(releases) = 2
    /\ releases[2].entries # <<>>
    /\ lines[LineOf(Chrono[pos])] = <<>>
    /\ lines[unreleased_feature] = <<>>
    /\ lines[unreleased_bugfix] # <<>>
    /\ \E x \in LineBuckets(lines) : lines[x] # <<>>

\* C13: an implicit release on a line L that has a bucket appends a Release
\* whose entries are the issues of bucket L with major = false, in order;
\* afterwards bucket L is empty, unreleased_bugfix holds none of the entries
\* and all its other issues in the order they had, and unreleased_feature
\* and every other line bucket are as before.
C13_KnownLineRelease ==
    [][(AtItem /\ IsImplicit(Item) /\ LineOf(Item) \in DOMAIN lines) =>
          LET L == LineOf(Item)
              released == SelectSeq(lines[L], LAMBDA x : x.major = FALSE)
          IN  /\ pc' = "construct_releases"
              /\ releases' = Append(releases,
                    [obj |-> Item.focus, entries |-> released])
              /\ DOMAIN lines' = DOMAIN lines
              /\ lines'[L] = <<>>
              /\ \A k \in 1..Len(released) :
                    released[k] \notin Range(lines'[unreleased_bugfix])
              /\ lines'[unreleased_bugfix] =
                    SelectSeq(lines[unreleased_bugfix],
                              LAMBDA x : x \notin Range(released))
              /\ \A x \in DOMAIN lines \ {unreleased_bugfix, L} :
                    Untouched(x)]_vars

C13_Witness ==
    /\ pc = "construct_releases" /\ pos > 0
    /\ IsImplicit(Chrono[pos])
    /\ \E e \in Range(releases[Len(releases)].entries) :
          e.type_ = "bug" /\ ~e.major
    /\ lines[LineOf(Chrono[pos])] = <<>>
    /\ lines[unreleased_bugfix] # <<>>

\* ------------------------------------------------------------------ C14
\* The item is a non-major bug written with a number and no flag
PlainBug(item) ==
    /\ item.focus.node = "issue"
    /\ item.focus.type_ = "bug"
    /\ item.focus.number # None
    /\ ~item.focus.major /\ ~item.focus.backported
    /\ item.focus.line = NoLine

\* The run has handled a plain bug and then an implicit release, the first
\* two items of the stream
AfterBugThenRelease ==
    /\ pc = "construct_releases" /\ pos = 2
    /\ PlainBug(Chrono[1])
    /\ IsImplicit(Chrono[2])

\* The issue of item k is in bucket x
InBucket(k, x) == \E e \in Range(lines[x]) : e.id = Chrono[k].focus.id

\* C14 as stated: after [bug #1, implicit release 1.0] the Release has no
\* entries and bug #1 is in unreleased_bugfix and in the bucket of the line
\* the release created.
C14_BugInNewBucket ==
    (/\ AfterBugThenRelease
     /\ Chrono[1].focus.number = "1"
     /\ Chrono[2].focus.number = <<"1", "0">>) =>
        /\ releases[1].entries = <<>>
        /\ InBucket(1, unreleased_bugfix)
        /\ InBucket(1, LineOf(Chrono[2]))

\* C14, amended: after [plain non-major bug, implicit release], the release
\* originating its line, the Release has no entries, the bug is still in
\* unreleased_bugfix, and the bucket the release created is empty: the bug
\* is not in it.
C14_NewBucketEmpty ==
    AfterBugThenRelease =>
        /\ Len(releases) = 1
        /\ releases[1].obj = Chrono[2].focus
        /\ releases[1].entries = <<>>
        /\ InBucket(1, unreleased_bugfix)
        /\ Len(lines[unreleased_bugfix]) = 1
        /\ LineOf(Chrono[2]) \in DOMAIN lines
        /\ lines[LineOf(Chrono[2])] = <<>>
        /\ ~InBucket(1, LineOf(Chrono[2]))

C14_Witness ==
    /\ AfterBugThenRelease
    /\ Chrono[1].focus.number = "1"
    /\ Chrono[2].focus.number = <<"1", "0">>
    /\ Len(entries) = 2

\* ------------------------------------------------------------------ C15
\* The item is bug #3 with minimum line 1.0
PlainBugWithLine(item) ==
    /\ item.focus.node = "issue"
    /\ item.focus.type_ = "bug"
    /\ item.focus.number = "3"
    /\ ~item.focus.major
    /\ item.focus.line = <<"1", "0">>

\* The run has handled exactly [feature #2, implicit release v1, bug #3 with
\* minLine 1.0, implicit release v2], the first four items of the stream
FeatureReleaseBugRelease(v1, v2) ==
    /\ pc \in {"construct_releases", "construct_nodes"} /\ pos = 4
    /\ Chrono[1].focus.node = "issue"
    /\ Chrono[1].focus.type_ = "feature" /\ Chrono[1].focus.number = "2"
    /\ ~Chrono[1].focus.backported
    /\ IsImplicit(Chrono[2]) /\ Chrono[2].focus.number = v1
    /\ PlainBugWithLine(Chrono[3])
    /\ IsImplicit(Chrono[4]) /\ Chrono[4].focus.number = v2

\* The second Release holds bug #3 alone, its line's bucket is empty, and
\* #3 has left unreleased_bugfix and so the trailing bugfix pseudo-release
SecondReleaseTakesBug ==
    /\ Len(releases[2].entries) = 1
    /\ releases[2].entries[1].id = Chrono[3].focus.id
    /\ lines[LineOf(Chrono[4])] = <<>>
    /\ ~InBucket(3, unreleased_bugfix)
    /\ pc = "construct_nodes" =>
          \A e \in Range(releases[3].entries) : e.id # Chrono[3].focus.id

\* C15 as stated: in [feature #2, implicit release 1.0, bug #3 with minLine
\* 1.0, implicit release 1.0] the second Release's entries are exactly
\* [#3], the line's bucket is empty afterwards and #3 is not in
\* unreleased_bugfix.
C15_SecondReleaseAsStated ==
    FeatureReleaseBugRelease(<<"1", "0">>, <<"1", "0">>)
        => SecondReleaseTakesBug

\* C15, amended: the same holds when the two releases carry three-component
\* versions of line 1.0 (1.0.0 and then 1.0.0 or 1.0.1).
C15_SecondReleaseOnLine ==
    \A v \in {<<"1", "0", "0">>, <<"1", "0", "1">>} :
        FeatureReleaseBugRelease(<<"1", "0", "0">>, v)
            => SecondReleaseTakesBug

C15_Witness ==
    /\ FeatureReleaseBugRelease(<<"1", "0", "0">>, <<"1", "0", "1">>)
    /\ pc = "construct_nodes"
    /\ releases[1].entries # <<>>

\* ------------------------------------------------------------------ C16
\* A description with every top-level issue reference replaced, where it
\* stands, by the presentation fragment of the issue it names
RECURSIVE Substituted(_)
Substituted(desc) ==
    IF desc = <<>> THEN <<>>
    ELSE (IF Head(desc).node = "issue" THEN Head(desc).nodelist
          ELSE <<Head(desc)>>) \o Substituted(Tail(desc))

\* The paragraph assembled for entry e of Release k: the only child of the
\* e-th item of the list appended to the Release's header section
AssembledParagraph(k, e) ==
    LET section == releases[k].obj.nodelist[1].children
    IN  section[Len(section)].children[e].children[1].children

\* C16: in the assembled paragraph of every entry the description follows
\* the entry's own fragment with each nested issue reference replaced at its
\* position by that issue's fragment and every other element kept in order,
\* so no issue reference is left at top level, however many the description
\* holds.
C16_ReferencesResolved ==
    pc = "done" =>
        \A k \in 1..Len(releases) :
            \A e \in 1..Len(releases[k].entries) :
                LET entry == releases[k].entries[e]
                    par == AssembledParagraph(k, e)
                IN  /\ par = entry.nodelist \o Substituted(entry.description)
                    /\ \A m \in 1..Len(par) : par[m].node # "issue"

\* ------------------------------------------------------------------ C17
\* The issues of a bucket that the explicit release at hand does not list
Unlisted(list) ==
    SelectSeq(list, LAMBDA x : x.number \notin Range(Listed(Item)))

\* The stream is [bug #5, bug #6, release 1.1 listing 6], the release next
BugBugExplicit ==
    /\ Len(entries) = 3 /\ pos = 2 /\ pc = "construct_releases"
    /\ IsExplicit(Item)
    /\ PlainBug(Chrono[1]) /\ Chrono[1].focus.number = "5"
    /\ PlainBug(Chrono[2]) /\ Chrono[2].focus.number = "6"
    /\ Item.focus.number = <<"1", "1">> /\ Listed(Item) = <<"6">>

\* C17: a step that handles an explicit release creates no bucket, and
\* leaves in every bucket the issues the release does not list, in the
\* order they had: a bucket changes only by losing listed issues.  In
\* [bug #5, bug #6, release 1.1 listing 6], #5 is in unreleased_bugfix after
\* the step.
C17_ExplicitReleaseFrame ==
    [][(AtItem /\ IsExplicit(Item)) =>
          /\ DOMAIN lines' = DOMAIN lines
          /\ \A x \in DOMAIN lines :
                /\ Unlisted(lines'[x]) = Unlisted(lines[x])
                /\ Range(lines'[x]) \subseteq Range(lines[x])
          /\ BugBugExplicit =>
                \E e \in Range(lines'[unreleased_bugfix]) : e.number = "5"]_vars

C17_Witness ==
    /\ pc = "construct_releases" /\ pos = 3
    /\ IsExplicit(Chrono[3])
    /\ releases[Len(releases)].entries # <<>>
    /\ \E x \in DOMAIN lines :
          \E e \in Range(lines[x]) :
             e.number \notin Range(Chrono[3].rest[1].text) \cup {None}

\* ------------------------------------------------------------------ C18
Sentinels == {unreleased_bugfix, unreleased_feature}

\* No implicit release of line L has been handled so far
NoEarlierImplicit(L) ==
    \A k \in Handled : ~(IsImplicit(Chrono[k]) /\ LineOf(Chrono[k]) = L)

\* C18: both sentinel buckets exist from the start and in every state, and
\* no step removes a bucket; a step adds a bucket only when it handles an
\* implicit release whose line has none, and then adds that line's bucket
\* alone, so issues and explicit releases add none; an implicit release on
\* a line with no earlier implicit release, explicit releases on that line
\* or not, takes the new-line path: its entries come from
\* unreleased_feature, which it empties.
C18_BucketNames ==
    /\ Sentinels \subseteq DOMAIN lines
    /\ [][/\ Sentinels \subseteq DOMAIN lines'
          /\ DOMAIN lines \subseteq DOMAIN lines'
          /\ DOMAIN lines' # DOMAIN lines =>
                /\ AtItem /\ IsImplicit(Item)
                /\ LineOf(Item) \notin DOMAIN lines
                /\ DOMAIN lines' = DOMAIN lines \cup {LineOf(Item)}
          /\ (AtItem /\ IsImplicit(Item)
                 /\ NoEarlierImplicit(LineOf(Item))) =>
                /\ LineOf(Item) \notin DOMAIN lines
                /\ LineOf(Item) \in DOMAIN lines'
                /\ releases'[Len(releases')].entries
                      = lines[unreleased_feature]
                /\ lines'[unreleased_feature] = <<>>
                /\ lines'[LineOf(Item)] = <<>>]_vars

C18_Witness ==
    /\ pc = "construct_releases" /\ pos = 3
    /\ IsExplicit(Chrono[2]) /\ IsImplicit(Chrono[3])
    /\ LineOf(Chrono[2]) = LineOf(Chrono[3])
    /\ Len(releases) = 2
    /\ releases[1].entries # <<>>
    /\ LineBuckets(lines) = {LineOf(Chrono[3])}

\* ------------------------------------------------------------------ C19
\* A non-major bug or a backported feature or support issue
BugfixLike(x) ==
    \/ x.type_ = "bug" /\ ~x.major
    \/ x.type_ \in {"feature", "support"} /\ x.backported

\* C19: unreleased_feature holds only features, support issues and major
\* bugs; unreleased_bugfix and every line bucket hold only non-major bugs
\* and backported features and support issues; so the filter of the
\* new-line path keeps all of unreleased_feature and the filter of the
\* known-line path keeps all of a line's bucket.
C19_BucketTypes ==
    /\ \A e \in Range(lines[unreleased_feature]) :
          /\ FeatureLike(e)
          /\ ~(e.type_ = "bug" /\ ~e.major)
    /\ \A x \in DOMAIN lines \ {unreleased_feature} :
          \A e \in Range(lines[x]) :
             /\ BugfixLike(e)
             /\ ~(e.type_ = "bug" /\ e.major)
             /\ ~(e.type_ \in {"feature", "support"} /\ ~e.backported)
    /\ feature_entries(lines[unreleased_feature]) = lines[unreleased_feature]
    /\ \A x \in LineBuckets(lines) : bugfix_entries(lines[x]) = lines[x]

C19_Witness ==
    /\ \E e \in Range(lines[unreleased_feature]) : e.type_ = "bug" /\ e.major
    /\ \E e \in Range(lines[unreleased_feature]) : e.type_ = "feature"
    /\ \E x \in LineBuckets(lines) :
          \E e \in Range(lines[x]) : e.type_ = "feature" /\ e.backported
    /\ lines[unreleased_bugfix] # <<>>

\* ------------------------------------------------------------------ C20
\* The stream has no release with an explicit list
OnlyImplicitReleases == \A k \in 1..Len(Chrono) : ~IsExplicit(Chrono[k])

NonMajorBug(item) ==
    ~IsRelease(item) /\ ItemType(item) = "bug" /\ ~ItemMajor(item)

\* The real Releases built so far: one per release marker handled
RealReleases == Cardinality({k \in Handled : IsRelease(Chrono[k])})

\* The issue of item k is an entry of some real Release
Released(k) ==
    \E r \in 1..RealReleases :
        \E e \in Range(releases[r].entries) : e.id = Chrono[k].focus.id

\* The issue of item k is an entry of the trailing bugfix pseudo-release
InBugfixPseudoRelease(k) ==
    \E e \in Range(releases[RealReleases + 1].entries) :
        e.id = Chrono[k].focus.id

\* C20: in a run without error over a stream whose releases are all
\* implicit, a non-major bug handled so far is in unreleased_bugfix exactly
\* when no real Release built so far has it as an entry (the first release
\* that takes it removes it, nothing else does), and so in the returned list
\* it is an entry of the unreleased_bugfix pseudo-release exactly when it is
\* an entry of no real Release.
C20_UnreleasedIffNotReleased ==
    (OnlyImplicitReleases /\ pc \in {"construct_releases", "construct_nodes"})
        => \A k \in Handled :
              NonMajorBug(Chrono[k]) =>
                 /\ InBucket(k, unreleased_bugfix) <=> ~Released(k)
                 /\ pc = "construct_nodes" =>
                       (InBugfixPseudoRelease(k) <=> ~Released(k))

C20_Witness ==
    /\ pc = "construct_nodes"
    /\ OnlyImplicitReleases
    /\ \E k \in Handled :
          NonMajorBug(Chrono[k]) /\ Released(k) /\ ~InBugfixPseudoRelease(k)
    /\ \E k \in Handled :
          NonMajorBug(Chrono[k]) /\ ~Released(k) /\ InBugfixPseudoRelease(k)

====
